---- MODULE Spec2Model ----
(***************************************************************************)
(* The rate-limited request gateway of bncclient.                          *)
(*                                                                         *)
(* Two revisions of the gateway live in the sources and both are modelled: *)
(*   - "v2": weightController.getSleepTime (a process-wide singleton)      *)
(*     consulted by BinanceClient.makeApiRequest, which returns a warning  *)
(*     instead of calling the API when the budget is exhausted;            *)
(*   - "v1": RequestWeightController                                       *)
(*     .getSleepTimeAndUpdateAccumulatedWeight, whose makeApiRequest       *)
(*     sleeps for the recommended time and then calls the API.             *)
(* The variable revision says which of the two the process runs; it never  *)
(* changes.  Both share the controller's fields, the clock and the         *)
(* callers' state.                                                         *)
(*                                                                         *)
(* Spec runs NumCallers concurrent callers, each asking for the order book *)
(* with a limit of ConcurrentOrderBookLimits, against a transport with the *)
(* results ConcurrentResults; SpecOneCaller runs one caller with the       *)
(* limits OrderBookLimits, who also asks for the historical trades,        *)
(* against every result of TransportResults.                               *)
(* SpecConstruction runs the v2 process from before the first             *)
(* NewBinanceClient call.  SpecRetry runs the v2 process without end,      *)
(* under fair scheduling, with one caller that waits out the retry-after   *)
(* of every budget warning it gets.                                        *)
(***************************************************************************)
EXTENDS Integers, Sequences, FiniteSets, TLC

\* ------------------------------------------------------------ constants

weightLimitPerMinute == 1200

sessionDurationMS == 60 * 1000

\* The limit the v1 controller compares with ("we use 999").
weightLimitV1 == 999

\* The configured cooldown after an edge rejection (status 403).
edgeRejectionCooldownMS == 60 * 1000

\* ------------------------------------------------------------ bounds

\* Concurrent callers (goroutines sharing one controller).
NumCallers == 2

\* The clock advances at most this many times.
MaxTicks == 3

Callers == 1..NumCallers

\* One advance of the clock: half a window, so that elapsed times below, at
\* and above the window length all occur.  time.Now().Unix()*1000 is always
\* a multiple of 1000.
TickMS == sessionDurationMS \div 2

MaxNowMS == MaxTicks * TickMS

Revisions == {"v1", "v2"}

\* ------------------------------------------------------------ inputs

\* GetOrderBook's table from the limit parameter to the request weight.
limitToWeightMap ==
    [l \in {-1, 5, 10, 20, 50, 100, 500, 1000, 5000} |->
        CASE l = 500  -> 5
          [] l = 1000 -> 10
          [] l = 5000 -> 50
          [] OTHER    -> 1]

\* The limit values the caller of SpecOneCaller passes to GetOrderBook, and
\* the one the concurrent callers of Spec pass.
OrderBookLimits == {1000, 5000}

ConcurrentOrderBookLimits == {5000}

\* The request weights that reach the controller for these limits.
Weights(limits) == {limitToWeightMap[l] : l \in limits}

\* Retry-After header values, as sequences of characters; <<>> is an absent
\* header (Header.Get returns "").
RetryAfterHeaders == {<<>>, <<"5">>, <<"0">>, <<"x">>, <<"-", "5">>}

DigitValue(c) ==
    CASE c = "0" -> 0 [] c = "1" -> 1 [] c = "2" -> 2 [] c = "3" -> 3
      [] c = "4" -> 4 [] c = "5" -> 5 [] c = "6" -> 6 [] c = "7" -> 7
      [] c = "8" -> 8 [] c = "9" -> 9 [] OTHER -> -1

RECURSIVE DigitsValue(_, _)
\* The value of a sequence of decimal digits, or -1 when a character is no digit.
DigitsValue(s, acc) ==
    IF s = <<>> THEN acc
    ELSE IF DigitValue(Head(s)) < 0 THEN -1
    ELSE DigitsValue(Tail(s), acc * 10 + DigitValue(Head(s)))

\* strconv.Atoi with its error dropped (retryAfter, _ := strconv.Atoi(..)):
\* an optional sign and decimal digits give the number, anything else 0.
Atoi(s) ==
    LET signed == s # <<>> /\ Head(s) \in {"+", "-"}
        digits == IF signed THEN Tail(s) ELSE s
        v      == IF digits = <<>> THEN -1 ELSE DigitsValue(digits, 0)
    IN  IF v < 0 THEN 0
        ELSE IF signed /\ Head(s) = "-" THEN 0 - v ELSE v

\* What client.Do and ioutil.ReadAll can give back:
\*   "neterr"   Do fails and returns no response (DNS, connect, timeout);
\*   "rediterr" Do fails and returns a response as well (CheckRedirect);
\*   "readerr"  Do succeeds, reading the body fails;
\*   "resp"     a response with a status, a Retry-After header and a body.
\* body is "json" (the expected shape), "envelope" ({code, msg}), "array"
\* (an empty JSON array) or "other" (no JSON).
NoResult == [kind |-> "none", status |-> 0, retryAfter |-> <<>>, body |-> "nil"]

Failure(k) == [kind |-> k, status |-> 0, retryAfter |-> <<>>, body |-> "nil"]

Response(s, h, b) == [kind |-> "resp", status |-> s, retryAfter |-> h, body |-> b]

TransportResults ==
    {Failure("neterr"), Failure("rediterr"), Failure("readerr")}
    \cup {Response(200, <<>>, b) : b \in {"json", "envelope", "array", "other"}}
    \cup {Response(200, <<"5">>, "json")}
    \cup {Response(429, h, "envelope") : h \in RetryAfterHeaders}
    \cup {Response(403, h, "other") : h \in {<<>>, <<"5">>}}
    \cup {Response(500, <<>>, "envelope")}

\* The results the transport gives the concurrent callers of Spec.
ConcurrentResults == {Response(200, <<>>, "json")}

\* ------------------------------------------------------------ state

VARIABLES
    revision,                     \* which gateway the process runs
    wcInstance,                   \* the singleton: 0 is nil, else the instance
    lock,                         \* the singleton's lock: 0 free, else the holder
    client,                       \* the instance each caller's client holds
    sawNil,                       \* getWeightControllerSingleton's nil test
    instances,                    \* history: controllers created so far
    retry,                        \* what each caller keeps of its last budget warning
    now,                          \* time.Now().Unix() * 1000
    lastMinuteAccumulatedWeight,  \* controller field
    timestampOfZeroOutWeightMS,   \* controller field
    mutex,                        \* controller field: 0 free, else the holder
    pc,                           \* where each caller is
    weight,                       \* makeApiRequest's weight argument
    currentTimestampMS,           \* the controller call's clock reading
    loadedWeight,                 \* the accumulated weight the call has read
    loadedTimestamp,              \* the window start the call has read
    sleepTimeMS,                  \* what the controller call returned
    wakeAt,                       \* when time.Sleep ends (v1)
    transportCalls,               \* client.Do invocations of the current call
    result,                       \* what the transport gave back
    outcome,                      \* what makeApiRequest returned
    operation,                    \* the public operation each caller is in
    reply,                        \* what the public operation returned
    requested,                    \* history: see Requested
    admitted,                     \* history: see Admitted
    joined,                       \* history: see Joined
    hinted,                       \* history: see Hinted
    reserveCalls                  \* history: controller calls completed by
                                  \* each caller's current makeApiRequest

vars == <<revision, wcInstance, lock, client, sawNil, instances, retry, now, lastMinuteAccumulatedWeight, timestampOfZeroOutWeightMS,
          mutex, pc, weight, currentTimestampMS, loadedWeight, loadedTimestamp,
          sleepTimeMS, wakeAt, transportCalls, result, outcome, operation,
          reply, requested, admitted, joined, hinted, reserveCalls>>

controller == <<lastMinuteAccumulatedWeight, timestampOfZeroOutWeightMS>>

singleton == <<wcInstance, lock, client, sawNil, instances>>

history == <<requested, admitted, joined, hinted, reserveCalls>>

\* newWaring: a warning that carries a retry-after time and a message.
newWaring(retryAfter, message) == [retryAfter |-> retryAfter, message |-> message]

\* warningSt.GetRetryAfterTimeMS.
GetRetryAfterTimeMS(w) == w.retryAfter

\* A nil warning.
NoWarning == [retryAfter |-> 0, message |-> "none"]

\* The warning value makeApiRequest returns beside the retry-after time ra.
\* newWaring takes the retry-after time and the message; the gateway that
\* calls it with both is not in the sources (the one that is passes the
\* message alone), so the time it passes is the one of the design: the
\* retry-after of the Warning, which is the value returned beside it.
warningFor(ra, message) ==
    IF message = "none" THEN NoWarning ELSE newWaring(ra, message)

\* makeApiRequest's return values, and whether it panicked instead.
\* warning is "none" (nil), "budget" or "status429" and warningSt the warning
\* value; err is "none" (nil), "transport" or "read"; status is the status
\* code v1 returns (v2 returns none: 0); retryAfter is in milliseconds in v2
\* and in seconds in v1.
NoOutcome ==
    [returned |-> FALSE, panicked |-> FALSE, body |-> "nil", status |-> 0,
     retryAfter |-> 0, warning |-> "none", warningSt |-> NoWarning,
     err |-> "none"]

Returned(b, st, ra, w, e) ==
    [returned |-> TRUE, panicked |-> FALSE, body |-> b, status |-> st,
     retryAfter |-> ra, warning |-> w, warningSt |-> warningFor(ra, w),
     err |-> e]

Panicked ==
    [returned |-> FALSE, panicked |-> TRUE, body |-> "nil", status |-> 0,
     retryAfter |-> 0, warning |-> "none", warningSt |-> NoWarning,
     err |-> "none"]

\* The error values of the public operations.  kind is "none" (nil), the
\* error makeApiRequest returned ("transport", "read"), the error of a
\* json.Unmarshal call ("SyntaxError", "UnmarshalTypeError": of names the
\* target of the call that made it) or "binanceError" (code is "envelope"
\* for the code and message of the body, "zero" for code 0 and no message).
NoError == [kind |-> "none", of |-> "none", code |-> "none"]

GatewayError(e) == [kind |-> e, of |-> "none", code |-> "none"]

UnmarshalError(k, target) == [kind |-> k, of |-> target, code |-> "none"]

binanceError(code) == [kind |-> "binanceError", of |-> "none", code |-> code]

\* A public operation's return values, and whether the panic of
\* makeApiRequest went through it.  value is "parsed" (the fields of the
\* body) or "zero" (0, nil, an empty OrderBook, a list without fields).
NoReply ==
    [returned |-> FALSE, panicked |-> FALSE, value |-> "zero", status |-> 0,
     retryAfter |-> 0, warning |-> "none", err |-> NoError]

Replied(v, st, ra, w, e) ==
    [returned |-> TRUE, panicked |-> FALSE, value |-> v, status |-> st,
     retryAfter |-> ra, warning |-> w, err |-> e]

ReplyPanicked ==
    [returned |-> FALSE, panicked |-> TRUE, value |-> "zero", status |-> 0,
     retryAfter |-> 0, warning |-> "none", err |-> NoError]

\* The limit and the window length of the revision that runs.
\* What a caller keeps of the budget warning its last call got: the clock
\* reading of the controller call that was turned away, and the time until
\* which the warning's retry-after tells it to wait. NoRetry when its last
\* call was let through.
NoRetry == [warned |-> FALSE, warnedAt |-> 0, until |-> 0]

Warned(at, until) == [warned |-> TRUE, warnedAt |-> at, until |-> until]

Limit == IF revision = "v1" THEN weightLimitV1 ELSE weightLimitPerMinute

WindowLength == sessionDurationMS

\* The value of requested and admitted once the first window is over.
Over == 0 - 1

\* The value of joined for a call whose weight the controller has not counted.
NotCounted == 0 - 1

\* The value of hinted before any call was told to sleep.
NoHint == 0 - 1

\* getWeightControllerSingleton / NewWeightController: an empty window that
\* starts at construction time; every caller outside makeApiRequest.
Init ==
    /\ revision \in Revisions
    /\ wcInstance = 1
    /\ lock = 0
    /\ client = [p \in Callers |-> 1]
    /\ sawNil = [p \in Callers |-> FALSE]
    /\ instances = 1
    /\ retry = [p \in Callers |-> NoRetry]
    /\ now = 0
    /\ lastMinuteAccumulatedWeight = 0
    /\ timestampOfZeroOutWeightMS = 0
    /\ mutex = 0
    /\ pc = [p \in Callers |-> "idle"]
    /\ weight = [p \in Callers |-> 0]
    /\ currentTimestampMS = [p \in Callers |-> 0]
    /\ loadedWeight = [p \in Callers |-> 0]
    /\ loadedTimestamp = [p \in Callers |-> 0]
    /\ sleepTimeMS = [p \in Callers |-> 0]
    /\ wakeAt = [p \in Callers |-> 0]
    /\ transportCalls = [p \in Callers |-> 0]
    /\ result = [p \in Callers |-> NoResult]
    /\ outcome = [p \in Callers |-> NoOutcome]
    /\ operation = [p \in Callers |-> "none"]
    /\ reply = [p \in Callers |-> NoReply]
    /\ requested = 0
    /\ admitted = 0
    /\ joined = [p \in Callers |-> NotCounted]
    /\ hinted = NoHint
    /\ reserveCalls = [p \in Callers |-> 0]

\* The process before any NewBinanceClient call (v2): no controller exists,
\* no caller has a client.
InitConstruction ==
    /\ revision = "v2"
    /\ wcInstance = 0
    /\ lock = 0
    /\ client = [p \in Callers |-> 0]
    /\ sawNil = [p \in Callers |-> FALSE]
    /\ instances = 0
    /\ retry = [p \in Callers |-> NoRetry]
    /\ now = 0
    /\ lastMinuteAccumulatedWeight = 0
    /\ timestampOfZeroOutWeightMS = 0
    /\ mutex = 0
    /\ pc = [p \in Callers |-> "noclient"]
    /\ weight = [p \in Callers |-> 0]
    /\ currentTimestampMS = [p \in Callers |-> 0]
    /\ loadedWeight = [p \in Callers |-> 0]
    /\ loadedTimestamp = [p \in Callers |-> 0]
    /\ sleepTimeMS = [p \in Callers |-> 0]
    /\ wakeAt = [p \in Callers |-> 0]
    /\ transportCalls = [p \in Callers |-> 0]
    /\ result = [p \in Callers |-> NoResult]
    /\ outcome = [p \in Callers |-> NoOutcome]
    /\ operation = [p \in Callers |-> "none"]
    /\ reply = [p \in Callers |-> NoReply]
    /\ requested = 0
    /\ admitted = 0
    /\ joined = [p \in Callers |-> NotCounted]
    /\ hinted = NoHint
    /\ reserveCalls = [p \in Callers |-> 0]

\* ------------------------------------------------------------ controller

\* A lock that excludes nobody.
MutexFree_NoExclusion(m) == TRUE

\* sync.Mutex.Lock proceeds only when nobody holds the mutex.
MutexFree(m) == m = 0

\* A return from the controller that leaves the mutex with its holder.
Unlock_Skipped(holder) == holder

\* mutex.Unlock (deferred in v2, before the return in v1): the value of the
\* mutex after its holder has released it.
Unlock(holder) == 0

\* getSleepTime that gives the weight of an exhausted window back when it
\* turns a call away.
getSleepTime_ForgetsOnReject(acc, start, cur, requestWeight) ==
    LET elapsedTimeMS == cur - start
    IN  IF acc < weightLimitPerMinute /\ elapsedTimeMS <= sessionDurationMS
        THEN [acc |-> acc + requestWeight, start |-> start, sleep |-> 0]
        ELSE IF acc >= weightLimitPerMinute /\ elapsedTimeMS <= sessionDurationMS
        THEN [acc |-> 0, start |-> start,
              sleep |-> sessionDurationMS - elapsedTimeMS]
        ELSE [acc |-> requestWeight, start |-> cur, sleep |-> 0]

\* getSleepTime that recommends half of the time the window has left.
getSleepTime_HalfHint(acc, start, cur, requestWeight) ==
    LET elapsedTimeMS == cur - start
    IN  IF acc < weightLimitPerMinute /\ elapsedTimeMS <= sessionDurationMS
        THEN [acc |-> acc + requestWeight, start |-> start, sleep |-> 0]
        ELSE IF acc >= weightLimitPerMinute /\ elapsedTimeMS <= sessionDurationMS
        THEN [acc |-> acc, start |-> start,
              sleep |-> (sessionDurationMS - elapsedTimeMS) \div 2]
        ELSE [acc |-> requestWeight, start |-> cur, sleep |-> 0]

\* getSleepTime that still admits a call when the limit has been reached
\* exactly.
getSleepTime_AdmitsAtLimit(acc, start, cur, requestWeight) ==
    LET elapsedTimeMS == cur - start
    IN  IF acc <= weightLimitPerMinute /\ elapsedTimeMS <= sessionDurationMS
        THEN [acc |-> acc + requestWeight, start |-> start, sleep |-> 0]
        ELSE IF elapsedTimeMS <= sessionDurationMS
        THEN [acc |-> acc, start |-> start,
              sleep |-> sessionDurationMS - elapsedTimeMS]
        ELSE [acc |-> requestWeight, start |-> cur, sleep |-> 0]

\* getSleepTime that turns away the call that would reach the limit exactly.
getSleepTime_OffByOne(acc, start, cur, requestWeight) ==
    LET elapsedTimeMS == cur - start
    IN  IF acc + requestWeight < weightLimitPerMinute
           /\ elapsedTimeMS <= sessionDurationMS
        THEN [acc |-> acc + requestWeight, start |-> start, sleep |-> 0]
        ELSE IF elapsedTimeMS <= sessionDurationMS
        THEN [acc |-> acc, start |-> start,
              sleep |-> sessionDurationMS - elapsedTimeMS]
        ELSE [acc |-> requestWeight, start |-> cur, sleep |-> 0]

\* getSleepTime that counts the weight of the call it turns away.
getSleepTime_CountsRejected(acc, start, cur, requestWeight) ==
    LET elapsedTimeMS == cur - start
    IN  IF elapsedTimeMS <= sessionDurationMS
        THEN [acc |-> acc + requestWeight, start |-> start,
              sleep |-> IF acc < weightLimitPerMinute THEN 0
                        ELSE sessionDurationMS - elapsedTimeMS]
        ELSE [acc |-> requestWeight, start |-> cur, sleep |-> 0]

\* weightController.getSleepTime (v2) on the values it has read: the new
\* accumulated weight, the new window start and the recommended sleep time.
getSleepTime(acc, start, cur, requestWeight) ==
    LET elapsedTimeMS == cur - start
    IN  IF acc < weightLimitPerMinute /\ elapsedTimeMS <= sessionDurationMS
        THEN [acc |-> acc + requestWeight, start |-> start, sleep |-> 0]
        ELSE IF acc >= weightLimitPerMinute /\ elapsedTimeMS <= sessionDurationMS
        THEN [acc |-> acc, start |-> start,
              sleep |-> sessionDurationMS - elapsedTimeMS]
        ELSE [acc |-> requestWeight, start |-> cur, sleep |-> 0]

\* RequestWeightController.getSleepTimeAndUpdateAccumulatedWeight (v1) on
\* the values it has read; cur is the clock reading taken before Lock.
getSleepTimeAndUpdateAccumulatedWeight(acc, start, cur, requestWeight) ==
    IF acc < weightLimitV1 /\ cur - start < 60 * 1000
    THEN [acc |-> acc + requestWeight, start |-> start, sleep |-> 0]
    ELSE IF acc >= weightLimitV1 /\ cur - start < 60 * 1000
    THEN IF cur - start >= 60 * 1000
         THEN [acc |-> requestWeight, start |-> cur,
               sleep |-> 60 * 1000 - (cur - start)]
         ELSE [acc |-> acc, start |-> start,
               sleep |-> 60 * 1000 - (cur - start)]
    ELSE [acc |-> requestWeight, start |-> cur, sleep |-> 0]

\* ------------------------------------------------------------ history

\* requested: the sum of the weights of all controller calls so far, as long
\* as every one of them was made inside the window that began at construction
\* (clock reading less than a window length after it) and the sum is at most
\* the limit; Over from then on.
Requested(req, start, cur, w) ==
    IF req = Over \/ start # 0 \/ ~(cur - start < WindowLength) \/ req + w > Limit
    THEN Over
    ELSE req + w

\* admitted: the part of requested whose calls were told not to sleep.
Admitted(adm, req, sleep, w) ==
    IF req = Over THEN Over
    ELSE IF sleep = 0 THEN adm + w ELSE adm

\* joined[p]: the start of the window in which the controller counted the
\* weight of p's current call (it added the weight to the window it found, or
\* began a new window with it); NotCounted when it left the accumulated
\* weight as it was, and outside a call.
Joined(acc, start, w, r) ==
    IF r.acc = acc + w /\ r.start = start THEN start
    ELSE IF r.acc = w /\ r.start # start THEN r.start
    ELSE NotCounted

\* hinted: the time the latest positive sleep time pointed at (the clock
\* reading of the call that got it, plus the sleep time); NoHint before the
\* first.
Hinted(h, cur, sleep) == IF sleep > 0 THEN cur + sleep ELSE h

\* ------------------------------------------------------------ gateway

\* makeApiRequest that makes a warning of any positive Retry-After, whatever
\* the status.
classify_AnyRetryAfterWarns(r) ==
    LET retryAfterMS == Atoi(r.retryAfter) * 1000
    IN  CASE r.kind = "neterr"   -> Panicked
          [] r.kind = "rediterr" -> Returned("nil", 0, 0, "none", "transport")
          [] r.kind = "readerr"  -> Returned("nil", 0, 0, "none", "read")
          [] OTHER ->
                IF retryAfterMS > 0
                THEN Returned("nil", 0, retryAfterMS, "status429", "none")
                ELSE Returned(r.body, 0, retryAfterMS, "none", "none")

\* makeApiRequest (v2), lines 297-322: what it returns for a transport
\* result.  With no response object the deferred rawResponse.Body.Close() of
\* line 298 dereferences nil before the error is looked at.
classify(r) ==
    LET retryAfterMS == Atoi(r.retryAfter) * 1000
    IN  CASE r.kind = "neterr"   -> Panicked
          [] r.kind = "rediterr" -> Returned("nil", 0, 0, "none", "transport")
          [] r.kind = "readerr"  -> Returned("nil", 0, 0, "none", "read")
          [] OTHER ->
                IF r.status = 429 /\ retryAfterMS > 0
                THEN Returned("nil", 0, retryAfterMS, "status429", "none")
                ELSE Returned(r.body, 0, retryAfterMS, "none", "none")

\* makeApiRequest (v1), lines 339-355: body, status code and Retry-After (in
\* seconds) are handed to the caller as they came.
classifyV1(r) ==
    CASE r.kind \in {"neterr", "rediterr"} ->
              Returned("nil", 0, 0, "none", "transport")
      [] r.kind = "readerr" -> Returned("nil", 0, 0, "none", "read")
      [] OTHER -> Returned(r.body, r.status, Atoi(r.retryAfter), "none", "none")

\* makeApiRequest that asks the controller again when told to sleep.
afterReserve_AsksAgain(sleep) ==
    IF sleep > 0
    THEN [pc |-> "lock", outcome |-> NoOutcome]
    ELSE [pc |-> "transport", outcome |-> NoOutcome]

\* makeApiRequest that returns the seconds it prints in the message.
afterReserve_Seconds(sleep) ==
    IF sleep > 0
    THEN [pc |-> "done",
          outcome |-> Returned("nil", 0, sleep \div 1000, "budget", "none")]
    ELSE [pc |-> "transport", outcome |-> NoOutcome]

\* makeApiRequest (v2), lines 287-291: a positive sleep time is returned as a
\* warning, anything else goes on to the API.
afterReserve(sleep) ==
    IF sleep > 0
    THEN [pc |-> "done", outcome |-> Returned("nil", 0, sleep, "budget", "none")]
    ELSE [pc |-> "transport", outcome |-> NoOutcome]

\* makeApiRequest (v1), line 320: time.Sleep of the recommended time, which
\* returns at once when that is not positive.
afterReserveV1(sleep) == IF sleep > 0 THEN "sleeping" ELSE "transport"

\* ------------------------------------------------------------ operations

\* The public operations and the structure each parses the body into.
Operations ==
    {"GetServerTime", "GetOrderBook", "GetRecentTrades", "GetHistoricalTrades",
     "GetAggregatedTrades"}

Target(op) ==
    CASE op = "GetServerTime" -> "ServerTimeIntermediateFormat"
      [] op = "GetOrderBook"  -> "OrderBookIntermediateFormat"
      [] op = "GetAggregatedTrades" -> "AggTradesList"
      [] OTHER -> "TradesList"

\* The JSON document a body is: "json" is the document the endpoint of op
\* answers with, "envelope" the {code, msg} object, "array" an empty JSON
\* array, anything else ("other": a proxy's HTML page; nil) is no JSON.
Document(body, op) ==
    CASE body = "json" -> Target(op)
      [] body \in {"envelope", "array"} -> body
      [] OTHER -> "text"

\* A JSON object, a JSON array, or no JSON.
DocumentShape(doc) ==
    CASE doc \in {"ServerTimeIntermediateFormat", "OrderBookIntermediateFormat",
                  "envelope"} -> "object"
      [] doc \in {"TradesList", "AggTradesList", "array"} -> "array"
      [] OTHER -> "text"

\* The JSON shape a target decodes: the two lists take an array, the
\* structures (binanceError among them) an object.
TargetShape(target) ==
    IF target \in {"TradesList", "AggTradesList"} THEN "array" ELSE "object"

\* json.Unmarshal(doc, &target): a syntax error for what is no JSON, a type
\* error for an array into a structure or an object into a list; otherwise
\* no error, the fields the document has under the target's names are set
\* and the others are ignored, so an object of another kind leaves the
\* target at its zero value.
Unmarshal(doc, target) ==
    IF DocumentShape(doc) = "text"
    THEN [err |-> "SyntaxError", value |-> "zero"]
    ELSE IF DocumentShape(doc) # TargetShape(target)
    THEN [err |-> "UnmarshalTypeError", value |-> "zero"]
    ELSE [err |-> "none",
          value |-> IF doc = target \/ (doc = "envelope" /\ target = "binanceError")
                    THEN "parsed" ELSE "zero"]

\* tryParseResponse that hands back the error of the second parse.
tryParseResponse_SecondError(doc, target) ==
    IF Unmarshal(doc, target).err # "none"
    THEN IF Unmarshal(doc, "binanceError").err # "none"
         THEN UnmarshalError(Unmarshal(doc, "binanceError").err, "binanceError")
         ELSE binanceError(IF Unmarshal(doc, "binanceError").value = "parsed"
                           THEN "envelope" ELSE "zero")
    ELSE NoError

\* tryParseResponse, the same in both revisions: the first parse into the
\* target, on its failure the second into binanceError; the first error when
\* both fail.
tryParseResponse(doc, target) ==
    IF Unmarshal(doc, target).err # "none"
    THEN IF Unmarshal(doc, "binanceError").err # "none"
         THEN UnmarshalError(Unmarshal(doc, target).err, target)
         ELSE binanceError(IF Unmarshal(doc, "binanceError").value = "parsed"
                           THEN "envelope" ELSE "zero")
    ELSE NoError

\* GetServerTime, GetRecentTrades, GetHistoricalTrades and
\* GetAggregatedTrades (v2) on what makeApiRequest returned: the error, the
\* warning, or the parsed value together with the error of the parse.
GetParsed(op, o) ==
    IF o.panicked THEN ReplyPanicked
    ELSE IF o.err # "none" THEN Replied("zero", 0, 0, "none", GatewayError(o.err))
    ELSE IF o.warning # "none" THEN Replied("zero", 0, o.retryAfter, o.warning, NoError)
    ELSE Replied(Unmarshal(Document(o.body, op), Target(op)).value, 0,
                 o.retryAfter, "none",
                 tryParseResponse(Document(o.body, op), Target(op)))

\* GetOrderBook (v2): as above, but a parse error is returned alone.
GetOrderBook(o) ==
    LET doc == Document(o.body, "GetOrderBook")
        err == tryParseResponse(doc, "OrderBookIntermediateFormat")
    IN  IF o.panicked THEN ReplyPanicked
        ELSE IF o.err # "none" THEN Replied("zero", 0, 0, "none", GatewayError(o.err))
        ELSE IF o.warning # "none"
        THEN Replied("zero", 0, o.retryAfter, o.warning, NoError)
        ELSE IF err # NoError THEN Replied("zero", 0, 0, "none", err)
        ELSE Replied(Unmarshal(doc, "OrderBookIntermediateFormat").value, 0,
                     o.retryAfter, "none", NoError)

\* GetServerTime (v1): json.Unmarshal alone, without the second parse.
GetServerTimeV1(o) ==
    LET parse == Unmarshal(Document(o.body, "GetServerTime"),
                           "ServerTimeIntermediateFormat")
    IN  IF o.err # "none" THEN Replied("zero", 0, 0, "none", GatewayError(o.err))
        ELSE IF parse.err # "none"
        THEN Replied("zero", 0, 0, "none",
                     UnmarshalError(parse.err, "ServerTimeIntermediateFormat"))
        ELSE Replied(parse.value, o.status, o.retryAfter, "none", NoError)

\* GetOrderBook, GetRecentTrades, GetHistoricalTrades and GetAggregatedTrades
\* (v1): the error of makeApiRequest or of tryParseResponse alone, else the
\* parsed value with the status code and the Retry-After seconds.
GetParsedV1(op, o) ==
    LET doc == Document(o.body, op)
        err == tryParseResponse(doc, Target(op))
    IN  IF o.err # "none" THEN Replied("zero", 0, 0, "none", GatewayError(o.err))
        ELSE IF err # NoError THEN Replied("zero", 0, 0, "none", err)
        ELSE Replied(Unmarshal(doc, Target(op)).value, o.status, o.retryAfter,
                     "none", NoError)

\* What the operation op of revision rev returns once its makeApiRequest has
\* ended with o.
operationReply(rev, op, o) ==
    IF rev = "v1"
    THEN IF op = "GetServerTime" THEN GetServerTimeV1(o) ELSE GetParsedV1(op, o)
    ELSE IF op = "GetOrderBook" THEN GetOrderBook(o) ELSE GetParsed(op, o)

\* A lock that excludes nobody.
SingletonLockFree_NoExclusion(l) == TRUE

\* lock.Lock() of getWeightControllerSingleton proceeds only when nobody
\* holds the lock.
SingletonLockFree(l) == l = 0

\* NewBinanceClient calls getWeightControllerSingleton, which takes the lock.
\* A caller without a client makes its first client, one with a client
\* makes another.
NewBinanceClient(p) ==
    /\ revision = "v2"
    /\ pc[p] \in {"noclient", "idle"}
    /\ SingletonLockFree(lock)
    /\ lock' = p
    /\ pc' = [pc EXCEPT ![p] = "singletonCheck"]
    /\ UNCHANGED <<revision, retry, wcInstance, client, sawNil, instances, now,
                   controller, mutex, weight, operation, currentTimestampMS,
                   loadedWeight, loadedTimestamp, sleepTimeMS, wakeAt,
                   transportCalls, result, outcome, reply, history>>

\* getWeightControllerSingleton tests wcInstance == nil.
SingletonCheck(p) ==
    /\ pc[p] = "singletonCheck"
    /\ sawNil' = [sawNil EXCEPT ![p] = (wcInstance = 0)]
    /\ pc' = [pc EXCEPT ![p] = "singletonCreate"]
    /\ UNCHANGED <<revision, retry, wcInstance, lock, client, instances, now,
                   controller, mutex, weight, operation, currentTimestampMS,
                   loadedWeight, loadedTimestamp, sleepTimeMS, wakeAt,
                   transportCalls, result, outcome, reply, history>>

\* getWeightControllerSingleton makes the controller if it saw nil (weight 0,
\* window starting now), returns wcInstance (the deferred Unlock runs) and
\* NewBinanceClient puts it in the client.
SingletonReturn(p) ==
    /\ pc[p] = "singletonCreate"
    /\ IF sawNil[p]
       THEN /\ wcInstance' = instances + 1
            /\ instances' = instances + 1
            /\ lastMinuteAccumulatedWeight' = 0
            /\ timestampOfZeroOutWeightMS' = now
       ELSE UNCHANGED <<wcInstance, instances, controller>>
    /\ client' = [client EXCEPT ![p] = wcInstance']
    /\ lock' = 0
    /\ sawNil' = [sawNil EXCEPT ![p] = FALSE]
    /\ pc' = [pc EXCEPT ![p] = "idle"]
    /\ UNCHANGED <<revision, retry, now, mutex, weight, operation,
                   currentTimestampMS, loadedWeight, loadedTimestamp,
                   sleepTimeMS, wakeAt, transportCalls, result, outcome, reply,
                   history>>

\* GetOrderBook is called with one of limits and enters makeApiRequest (v2)
\* with the weight of that limit; the first step of makeApiRequest that
\* touches shared state is the controller call.
Call(p, limits) ==
    /\ revision = "v2"
    /\ pc[p] = "idle"
    /\ \E w \in Weights(limits) : weight' = [weight EXCEPT ![p] = w]
    /\ operation' = [operation EXCEPT ![p] = "GetOrderBook"]
    /\ pc' = [pc EXCEPT ![p] = "lock"]
    /\ UNCHANGED <<revision, singleton, retry, now, controller, mutex, currentTimestampMS,
                   loadedWeight, loadedTimestamp, sleepTimeMS, wakeAt,
                   transportCalls, result, outcome, reply, history>>

\* GetOrderBook enters makeApiRequest (v1), which calls the controller, which
\* reads the clock before it locks the mutex.
CallV1(p, limits) ==
    /\ revision = "v1"
    /\ pc[p] = "idle"
    /\ \E w \in Weights(limits) : weight' = [weight EXCEPT ![p] = w]
    /\ operation' = [operation EXCEPT ![p] = "GetOrderBook"]
    /\ currentTimestampMS' = [currentTimestampMS EXCEPT ![p] = now]
    /\ pc' = [pc EXCEPT ![p] = "lock"]
    /\ UNCHANGED <<revision, singleton, retry, now, controller, mutex, loadedWeight,
                   loadedTimestamp, sleepTimeMS, wakeAt, transportCalls,
                   result, outcome, reply, history>>

\* GetHistoricalTrades is called and enters makeApiRequest with weight 5; in
\* v1 the controller call reads the clock before it locks the mutex.
CallHistoricalTrades(p) ==
    /\ pc[p] = "idle"
    /\ weight' = [weight EXCEPT ![p] = 5]
    /\ operation' = [operation EXCEPT ![p] = "GetHistoricalTrades"]
    /\ currentTimestampMS' =
          [currentTimestampMS EXCEPT ![p] = IF revision = "v1" THEN now ELSE @]
    /\ pc' = [pc EXCEPT ![p] = "lock"]
    /\ UNCHANGED <<revision, singleton, retry, now, controller, mutex, loadedWeight,
                   loadedTimestamp, sleepTimeMS, wakeAt, transportCalls,
                   result, outcome, reply, history>>

\* mutex.Lock(), in both revisions.
Lock(p) ==
    /\ pc[p] = "lock"
    /\ MutexFree(mutex)
    /\ mutex' = p
    /\ pc' = [pc EXCEPT ![p] = "load"]
    /\ UNCHANGED <<revision, singleton, retry, now, controller, weight, operation, currentTimestampMS,
                   loadedWeight, loadedTimestamp, sleepTimeMS, wakeAt,
                   transportCalls, result, outcome, reply, history>>

\* getSleepTime (v2): the clock and the fields are read.
Load(p) ==
    /\ revision = "v2"
    /\ pc[p] = "load"
    /\ currentTimestampMS' = [currentTimestampMS EXCEPT ![p] = now]
    /\ loadedWeight' = [loadedWeight EXCEPT ![p] = lastMinuteAccumulatedWeight]
    /\ loadedTimestamp' = [loadedTimestamp EXCEPT ![p] = timestampOfZeroOutWeightMS]
    /\ pc' = [pc EXCEPT ![p] = "store"]
    /\ UNCHANGED <<revision, singleton, retry, now, controller, mutex, weight, operation, sleepTimeMS,
                   wakeAt, transportCalls, result, outcome, reply, history>>

\* getSleepTimeAndUpdateAccumulatedWeight (v1): the fields are read.
LoadV1(p) ==
    /\ revision = "v1"
    /\ pc[p] = "load"
    /\ loadedWeight' = [loadedWeight EXCEPT ![p] = lastMinuteAccumulatedWeight]
    /\ loadedTimestamp' = [loadedTimestamp EXCEPT ![p] = timestampOfZeroOutWeightMS]
    /\ pc' = [pc EXCEPT ![p] = "store"]
    /\ UNCHANGED <<revision, singleton, retry, now, controller, mutex, weight, operation,
                   currentTimestampMS, sleepTimeMS, wakeAt, transportCalls,
                   result, outcome, reply, history>>

\* What every controller call does when it leaves: the fields are written,
\* the mutex is unlocked, the call's locals are gone.
Leave(p, r) ==
    /\ lastMinuteAccumulatedWeight' = r.acc
    /\ timestampOfZeroOutWeightMS' = r.start
    /\ sleepTimeMS' = [sleepTimeMS EXCEPT ![p] = r.sleep]
    /\ mutex' = Unlock(p)
    /\ currentTimestampMS' = [currentTimestampMS EXCEPT ![p] = 0]
    /\ loadedWeight' = [loadedWeight EXCEPT ![p] = 0]
    /\ loadedTimestamp' = [loadedTimestamp EXCEPT ![p] = 0]
    /\ requested' = Requested(requested, loadedTimestamp[p],
                              currentTimestampMS[p], weight[p])
    /\ admitted' = Admitted(admitted, requested', r.sleep, weight[p])
    /\ joined' = [joined EXCEPT ![p] =
                      Joined(lastMinuteAccumulatedWeight,
                             timestampOfZeroOutWeightMS, weight[p], r)]
    /\ hinted' = Hinted(hinted, currentTimestampMS[p], r.sleep)
    /\ reserveCalls' = [reserveCalls EXCEPT ![p] = @ + 1]

\* getSleepTime (v2) writes the fields and returns (the deferred Unlock
\* runs); makeApiRequest branches on the sleep time.
Reserve(p) ==
    /\ revision = "v2"
    /\ pc[p] = "store"
    /\ LET r == getSleepTime(loadedWeight[p], loadedTimestamp[p],
                             currentTimestampMS[p], weight[p])
           a == afterReserve(r.sleep)
       IN  /\ Leave(p, r)
           /\ pc' = [pc EXCEPT ![p] = a.pc]
           /\ outcome' = [outcome EXCEPT ![p] = a.outcome]
           /\ reply' = [reply EXCEPT ![p] =
                           IF a.pc = "done"
                           THEN operationReply(revision, operation[p], a.outcome)
                           ELSE NoReply]
           /\ retry' = [retry EXCEPT ![p] =
                           IF a.outcome.warning = "budget"
                           THEN Warned(currentTimestampMS[p],
                                       now + a.outcome.retryAfter)
                           ELSE NoRetry]
    /\ UNCHANGED <<revision, singleton, now, weight, operation, wakeAt, transportCalls, result>>

\* getSleepTimeAndUpdateAccumulatedWeight (v1) writes the fields, unlocks and
\* returns; makeApiRequest sleeps for the time it got.
ReserveV1(p) ==
    /\ revision = "v1"
    /\ pc[p] = "store"
    /\ LET r == getSleepTimeAndUpdateAccumulatedWeight(
                    loadedWeight[p], loadedTimestamp[p],
                    currentTimestampMS[p], weight[p])
       IN  /\ Leave(p, r)
           /\ pc' = [pc EXCEPT ![p] = afterReserveV1(r.sleep)]
           /\ wakeAt' = [wakeAt EXCEPT ![p] = IF r.sleep > 0 THEN now + r.sleep ELSE 0]
    /\ UNCHANGED <<revision, singleton, retry, now, weight, operation, transportCalls, result, outcome, reply>>

\* time.Sleep (v1) is over.
Wake(p) ==
    /\ revision = "v1"
    /\ pc[p] = "sleeping"
    /\ now >= wakeAt[p]
    /\ pc' = [pc EXCEPT ![p] = "transport"]
    /\ wakeAt' = [wakeAt EXCEPT ![p] = 0]
    /\ UNCHANGED <<revision, singleton, retry, now, controller, mutex, weight, operation,
                   currentTimestampMS, loadedWeight, loadedTimestamp,
                   sleepTimeMS, transportCalls, result, outcome, reply, history>>

\* client.Do, ioutil.ReadAll and what makeApiRequest makes of them, then
\* what the public operation makes of that; the transport answers with one
\* of results.
Transport(p, results) ==
    /\ pc[p] = "transport"
    /\ \E r \in results :
          /\ result' = [result EXCEPT ![p] = r]
          /\ outcome' = [outcome EXCEPT ![p] =
                            IF revision = "v1" THEN classifyV1(r) ELSE classify(r)]
          /\ reply' = [reply EXCEPT ![p] =
                          operationReply(revision, operation[p], outcome'[p])]
    /\ transportCalls' = [transportCalls EXCEPT ![p] = @ + 1]
    /\ pc' = [pc EXCEPT ![p] = "done"]
    /\ UNCHANGED <<revision, singleton, retry, now, controller, mutex, weight, operation,
                   currentTimestampMS, loadedWeight, loadedTimestamp,
                   sleepTimeMS, wakeAt, history>>

\* The caller has the outcome; the call's locals are gone.
Return(p) ==
    /\ pc[p] = "done"
    /\ pc' = [pc EXCEPT ![p] = "idle"]
    /\ weight' = [weight EXCEPT ![p] = 0]
    /\ sleepTimeMS' = [sleepTimeMS EXCEPT ![p] = 0]
    /\ transportCalls' = [transportCalls EXCEPT ![p] = 0]
    /\ result' = [result EXCEPT ![p] = NoResult]
    /\ outcome' = [outcome EXCEPT ![p] = NoOutcome]
    /\ operation' = [operation EXCEPT ![p] = "none"]
    /\ reply' = [reply EXCEPT ![p] = NoReply]
    /\ joined' = [joined EXCEPT ![p] = NotCounted]
    /\ reserveCalls' = [reserveCalls EXCEPT ![p] = 0]
    /\ UNCHANGED <<revision, singleton, retry, now, controller, mutex, currentTimestampMS,
                   loadedWeight, loadedTimestamp, wakeAt, requested, admitted,
                   hinted>>

\* Time passes.
Tick ==
    /\ now + TickMS <= MaxNowMS
    /\ now' = now + TickMS
    /\ UNCHANGED <<revision, singleton, retry, controller, mutex, pc, weight, operation, currentTimestampMS,
                   loadedWeight, loadedTimestamp, sleepTimeMS, wakeAt,
                   transportCalls, result, outcome, reply, history>>

Next ==
    \/ \E p \in Callers : Call(p, ConcurrentOrderBookLimits)
    \/ \E p \in Callers : CallV1(p, ConcurrentOrderBookLimits)
    \/ \E p \in Callers : Lock(p)
    \/ \E p \in Callers : Load(p)
    \/ \E p \in Callers : LoadV1(p)
    \/ \E p \in Callers : Reserve(p)
    \/ \E p \in Callers : ReserveV1(p)
    \/ \E p \in Callers : Wake(p)
    \/ \E p \in Callers : Transport(p, ConcurrentResults)
    \/ \E p \in Callers : Return(p)
    \/ Tick

Spec == Init /\ [][Next]_vars

\* One caller, every transport result.
NextOneCaller ==
    \/ Call(1, OrderBookLimits)
    \/ CallV1(1, OrderBookLimits)
    \/ CallHistoricalTrades(1)
    \/ Lock(1)
    \/ Load(1)
    \/ LoadV1(1)
    \/ Reserve(1)
    \/ ReserveV1(1)
    \/ Wake(1)
    \/ Transport(1, TransportResults)
    \/ Return(1)
    \/ Tick

SpecOneCaller == Init /\ [][NextOneCaller]_vars

\* The caller that honours its budget warnings.
Retrier == 1

\* The Retrier calls GetOrderBook again; after a budget warning it first waits
\* for the warning's retry-after to pass.
CallRetry(p) ==
    /\ retry[p].until <= now
    /\ Call(p, ConcurrentOrderBookLimits)

\* A time one tick nearer to the clock reading, not below 0; the history
\* values that are not times stay.
Shift(t) == IF t >= TickMS THEN t - TickMS ELSE 0

ShiftHistory(t) == IF t < 0 THEN t ELSE Shift(t)

\* Time passes with the clock reading at its bound: every stored time moves
\* one tick back instead. A time that would fall below 0 is more than a
\* window length before the clock reading (MaxNowMS > sessionDurationMS) and
\* the controller treats all such times alike. No controller call holds a
\* clock reading (v2 reads it at Load and uses it at Reserve).
Slide ==
    /\ revision = "v2"
    /\ now + TickMS > MaxNowMS
    /\ MaxNowMS > sessionDurationMS
    /\ \A p \in Callers : pc[p] # "store"
    /\ timestampOfZeroOutWeightMS' = Shift(timestampOfZeroOutWeightMS)
    /\ retry' = [p \in Callers |->
                    IF retry[p].warned
                    THEN Warned(Shift(retry[p].warnedAt), Shift(retry[p].until))
                    ELSE NoRetry]
    /\ joined' = [p \in Callers |-> ShiftHistory(joined[p])]
    /\ hinted' = ShiftHistory(hinted)
    /\ UNCHANGED <<revision, singleton, now, lastMinuteAccumulatedWeight,
                   mutex, pc, weight, operation, currentTimestampMS,
                   loadedWeight, loadedTimestamp, sleepTimeMS, wakeAt,
                   transportCalls, result, outcome, reply, requested,
                   admitted, reserveCalls>>

\* The v2 process running without end: the Retrier honours its budget
\* warnings, the other callers call whenever they like.
InitRetry == Init /\ revision = "v2"

NextRetry ==
    \/ CallRetry(Retrier)
    \/ \E p \in Callers \ {Retrier} : Call(p, ConcurrentOrderBookLimits)
    \/ \E p \in Callers : Lock(p)
    \/ \E p \in Callers : Load(p)
    \/ \E p \in Callers : Reserve(p)
    \/ \E p \in Callers : Transport(p, ConcurrentResults)
    \/ \E p \in Callers : Return(p)
    \/ Tick
    \/ Slide

\* Every caller goes on with what it can do (a goroutine that can run is
\* run), a caller waiting for the mutex gets it (sync.Mutex hands the mutex to
\* a waiter that has waited long), time passes.
FairnessRetry ==
    /\ WF_vars(CallRetry(Retrier))
    /\ \A p \in Callers \ {Retrier} : WF_vars(Call(p, ConcurrentOrderBookLimits))
    /\ \A p \in Callers : SF_vars(Lock(p))
    /\ \A p \in Callers : WF_vars(Load(p))
    /\ \A p \in Callers : WF_vars(Reserve(p))
    /\ \A p \in Callers : WF_vars(Transport(p, ConcurrentResults))
    /\ \A p \in Callers : WF_vars(Return(p))
    /\ WF_vars(Tick)
    /\ SF_vars(Slide)

SpecRetry == InitRetry /\ [][NextRetry]_vars /\ FairnessRetry

\* The v2 process from its start: the callers make their clients and call
\* GetOrderBook, concurrently.
NextConstruction ==
    \/ \E p \in Callers : NewBinanceClient(p)
    \/ \E p \in Callers : SingletonCheck(p)
    \/ \E p \in Callers : SingletonReturn(p)
    \/ \E p \in Callers : Call(p, ConcurrentOrderBookLimits)
    \/ \E p \in Callers : Lock(p)
    \/ \E p \in Callers : Load(p)
    \/ \E p \in Callers : Reserve(p)
    \/ \E p \in Callers : Transport(p, ConcurrentResults)
    \/ \E p \in Callers : Return(p)
    \/ Tick

SpecConstruction == InitConstruction /\ [][NextConstruction]_vars

\* ------------------------------------------------------------ claims

TypeOK ==
    /\ revision \in Revisions
    /\ now \in 0..MaxNowMS
    /\ mutex \in {0} \cup Callers
    /\ pc \in [Callers -> {"noclient", "singletonCheck", "singletonCreate",
                           "idle", "lock", "load", "store", "sleeping",
                           "transport", "done"}]
    /\ wcInstance \in 0..instances
    /\ lock \in {0} \cup Callers
    /\ requested \in {Over} \cup 0..Limit

\* The step in which p's controller call writes the fields and returns.
ReserveStep(p) == pc[p] = "store" /\ pc'[p] # "store"

\* now - windowStart as p's controller call computes it.
Elapsed(p) == currentTimestampMS[p] - timestampOfZeroOutWeightMS

\* p's makeApiRequest is past its controller call and has not returned.
InFlight(p) == pc[p] \in {"sleeping", "transport", "done"}

\* C1. Budget rejection: a reserve(w), w > 0, made while the window is open
\* (now - windowStart < windowLength) with accumulated + w > limit returns a
\* positive sleep hint.
C1_BudgetRejection ==
    [][\A p \in Callers :
          (/\ ReserveStep(p)
           /\ weight[p] > 0
           /\ Elapsed(p) < WindowLength
           /\ lastMinuteAccumulatedWeight + weight[p] > Limit)
          => sleepTimeMS'[p] > 0]_vars

\* C2. Two concurrent calls with weights w1 and w2, in one window, against a
\* budget whose room is at least max(w1, w2) and less than w1 + w2: exactly
\* one is admitted.  Here q has been admitted and is still in its call, the
\* room is the one the budget had without q's weight, and p's controller call
\* returns: p must be told to sleep.
C2_ExactlyOneAdmitted ==
    [][\A p \in Callers : \A q \in Callers \ {p} :
          LET room == Limit - (lastMinuteAccumulatedWeight - weight[q])
          IN  (/\ ReserveStep(p)
               /\ InFlight(q)
               /\ sleepTimeMS[q] = 0
               /\ joined[q] = timestampOfZeroOutWeightMS
               /\ Elapsed(p) >= 0
               /\ Elapsed(p) < WindowLength
               /\ room >= weight[p]
               /\ room >= weight[q]
               /\ room < weight[p] + weight[q])
              => sleepTimeMS'[p] > 0]_vars

\* C3. Concurrency safety: under every interleaving of the callers, as long
\* as all controller calls were made inside the first window and their
\* weights sum to at most the limit, and so when they sum exactly to the
\* limit, the accumulated weight is that sum and every call was told not to
\* sleep: no weight is lost.
C3_NoLostUpdate ==
    requested # Over =>
        /\ lastMinuteAccumulatedWeight = requested
        /\ admitted = requested

\* Two callers are past the controller in the same window and the weights
\* requested sum exactly to the limit.
C3_Witness ==
    /\ requested = Limit
    /\ lastMinuteAccumulatedWeight = Limit
    /\ \E p \in Callers : \E q \in Callers \ {p} :
          /\ InFlight(p) /\ joined[p] = 0
          /\ InFlight(q) /\ joined[q] = 0

\* C4. Budget monotonicity: every controller call of a sequence made inside
\* one window that began with accumulated = 0, whose weights sum to at most
\* the limit, returns sleep time 0 and leaves accumulated equal to the sum of
\* the weights so far.
C4_BudgetMonotonicity ==
    [][\A p \in Callers :
          (ReserveStep(p) /\ requested' # Over)
          => /\ sleepTimeMS'[p] = 0
             /\ lastMinuteAccumulatedWeight' = requested']_vars

\* A sequence of calls has used the whole limit and the last of them goes on
\* to the API.
C4_Witness ==
    /\ requested = Limit
    /\ admitted = Limit
    /\ pc[1] = "transport"
    /\ sleepTimeMS[1] = 0

\* C5. Window rollover: a reserve(w) called when now - windowStart >=
\* windowLength, the boundary included, returns 0 and leaves accumulated = w
\* and windowStart = now.
C5_WindowRollover ==
    [][\A p \in Callers :
          (ReserveStep(p) /\ Elapsed(p) >= WindowLength)
          => /\ sleepTimeMS'[p] = 0
             /\ lastMinuteAccumulatedWeight' = weight[p]
             /\ timestampOfZeroOutWeightMS' = currentTimestampMS[p]]_vars

\* C6. No transport call on exhausted budget: a makeApiRequest whose
\* controller call returned a positive sleep time never invokes the transport
\* and returns a warning.
C6_NoTransportOnExhaustedBudget ==
    \A p \in Callers :
        sleepTimeMS[p] > 0 =>
            /\ pc[p] # "transport"
            /\ transportCalls[p] = 0
            /\ pc[p] = "done" => (outcome[p].returned /\ outcome[p].warning # "none")

\* C7. The gateway never sleeps or retries internally: no makeApiRequest is
\* ever in a sleep, and none invokes the transport more than once.
C7_NeverSleepsOrRetries ==
    \A p \in Callers : pc[p] # "sleeping" /\ transportCalls[p] <= 1

\* The Retry-After value the claims speak of, in milliseconds: the header's
\* number of seconds, 0 when the header is absent or no number.
HeaderMS(h) ==
    IF h # <<>> /\ DigitsValue(h, 0) >= 0 THEN DigitsValue(h, 0) * 1000 ELSE 0

\* p's makeApiRequest (v2) has returned after a response with this status.
Answered(p, status) ==
    /\ revision = "v2"
    /\ pc[p] = "done"
    /\ result[p].kind = "resp"
    /\ result[p].status = status

\* C8. A response with status 429 is always a warning whose retryAfter is the
\* Retry-After header in milliseconds, 0 when the header is absent or
\* unparsable, and never a success payload.
C8_Status429IsWarning ==
    \A p \in Callers :
        Answered(p, 429) =>
            /\ outcome[p].returned
            /\ outcome[p].warning # "none"
            /\ outcome[p].err = "none"
            /\ outcome[p].body = "nil"
            /\ outcome[p].retryAfter = HeaderMS(result[p].retryAfter)

\* C9. A response with status 403 is a warning that carries the fixed
\* edge-rejection cooldown, never a success and never an error.
C9_Status403IsWarning ==
    \A p \in Callers :
        Answered(p, 403) =>
            /\ outcome[p].returned
            /\ outcome[p].warning # "none"
            /\ outcome[p].err = "none"
            /\ outcome[p].body = "nil"
            /\ outcome[p].retryAfter = edgeRejectionCooldownMS

\* C10. A transport failure (the HTTP client returns an error) is a warning
\* with a short fixed backoff, not a fatal error.
C10_TransportFailureIsWarning ==
    \A p \in Callers :
        (pc[p] = "done" /\ result[p].kind \in {"neterr", "rediterr"}) =>
            /\ outcome[p].returned
            /\ outcome[p].warning # "none"
            /\ outcome[p].err = "none"
            /\ outcome[p].retryAfter > 0

\* p's call has ended after a response with a status (either revision).
Responded(p) == pc[p] = "done" /\ result[p].kind = "resp"

\* C11. A response whose status is neither 200, 429 nor 403 is an error
\* whatever its body: makeApiRequest returns an error and no body, and the
\* public operation returns an error, never a value with a nil error.
C11_OtherStatusIsError ==
    \A p \in Callers :
        (Responded(p) /\ result[p].status \notin {200, 429, 403}) =>
            /\ outcome[p].returned
            /\ outcome[p].err # "none"
            /\ outcome[p].body = "nil"
            /\ reply[p].returned
            /\ reply[p].err # NoError

\* C12. A response with status 200 and a readable body is a success that
\* carries exactly the body received, with no warning and no error.
C12_Status200IsSuccess ==
    \A p \in Callers :
        (Responded(p) /\ result[p].status = 200) =>
            /\ outcome[p].returned
            /\ outcome[p].body = result[p].body
            /\ outcome[p].warning = "none"
            /\ outcome[p].warningSt = NoWarning
            /\ outcome[p].err = "none"

\* The v2 gateway has returned the body of a 200 response that came with a
\* Retry-After header.
C12_Witness ==
    /\ revision = "v2"
    /\ Responded(1)
    /\ result[1] = Response(200, <<"5">>, "json")
    /\ outcome[1].body = "json"
    /\ outcome[1].retryAfter = 5000
    /\ outcome[1].err = "none"

\* C13. Parse fallback: when the body the gateway hands to the public
\* operation is the error envelope {code, msg}, the operation returns the
\* binanceError with that code and message: not the failure of the first
\* parse, and not a value with a nil error.
C13_ParseFallback ==
    \A p \in Callers :
        (Responded(p) /\ outcome[p].returned /\ outcome[p].body = "envelope") =>
            /\ reply[p].returned
            /\ reply[p].err = binanceError("envelope")

\* C14. A rejected reservation has no side effects: a controller call that
\* returns a positive sleep time leaves the accumulated weight and the window
\* start exactly as they were.
C14_RejectionHasNoSideEffects ==
    [][\A p \in Callers :
          (ReserveStep(p) /\ sleepTimeMS'[p] > 0)
          => /\ lastMinuteAccumulatedWeight' = lastMinuteAccumulatedWeight
             /\ timestampOfZeroOutWeightMS' = timestampOfZeroOutWeightMS]_vars

\* A call has been turned away with a positive sleep time, its weight not
\* counted, while another caller is in a call of its own.
C14_Witness ==
    \E p \in Callers : \E q \in Callers \ {p} :
        /\ sleepTimeMS[p] > 0
        /\ pc[p] \in {"sleeping", "done"}
        /\ joined[p] = NotCounted
        /\ lastMinuteAccumulatedWeight >= Limit
        /\ pc[q] # "idle"

\* C15. Every makeApiRequest that has called the transport ends by
\* returning one outcome, whatever the transport gave back (no response
\* object, a body that cannot be read, any status): it never panics.
C15_AlwaysReturns ==
    \A p \in Callers :
        (pc[p] = "done" /\ transportCalls[p] > 0) =>
            /\ outcome[p].returned
            /\ ~outcome[p].panicked
            /\ reply[p].returned

\* C16. Every transport call is accounted: a makeApiRequest that is about to
\* call the transport, or has called it, had its weight counted by its own
\* controller call (added to the accumulated weight, or made the weight of a
\* new window).
C16_TransportCallsAreAccounted ==
    \A p \in Callers :
        (pc[p] = "transport" \/ transportCalls[p] > 0) => joined[p] # NotCounted

\* C17. A controller call that rejects inside an open window returns
\* exactly windowLength - (now - windowStart), so that a call made that much
\* later, at now - windowStart = windowLength in the same window, begins a
\* new window with its own weight.
C17_SleepHintIsRemainingWindow ==
    [][\A p \in Callers :
          /\ (ReserveStep(p) /\ sleepTimeMS'[p] > 0)
             => sleepTimeMS'[p] = WindowLength - Elapsed(p)
          /\ (/\ ReserveStep(p)
              /\ hinted # NoHint
              /\ currentTimestampMS[p] = hinted
              /\ timestampOfZeroOutWeightMS + WindowLength = hinted)
             => /\ sleepTimeMS'[p] = 0
                /\ lastMinuteAccumulatedWeight' = weight[p]
                /\ timestampOfZeroOutWeightMS' = currentTimestampMS[p]]_vars

Parsed(p) == Document(outcome[p].body, operation[p])

\* p's public operation got a body from the gateway and has parsed it.
ReachedParse(p) ==
    /\ Responded(p)
    /\ outcome[p].returned
    /\ outcome[p].warning = "none"
    /\ outcome[p].err = "none"

\* C19. When the body parses neither as the structure the operation expects
\* nor as the error envelope, the operation returns the error of the first
\* parse: not the error of the second, and no binanceError with code 0.
C19_OriginalParseFailure ==
    \A p \in Callers :
        (/\ ReachedParse(p)
         /\ Unmarshal(Parsed(p), Target(operation[p])).err # "none"
         /\ Unmarshal(Parsed(p), "binanceError").err # "none")
        => /\ reply[p].returned
           /\ reply[p].err =
                 UnmarshalError(Unmarshal(Parsed(p), Target(operation[p])).err,
                                Target(operation[p]))

\* GetOrderBook got a JSON array, which is neither an order book nor an
\* envelope, and returned the type error of the first parse.
C19_Witness ==
    /\ ReachedParse(1)
    /\ operation[1] = "GetOrderBook"
    /\ result[1].body = "array"
    /\ reply[1].err = UnmarshalError("UnmarshalTypeError",
                                     "OrderBookIntermediateFormat")
    /\ reply[1].value = "zero"

\* C20. Each makeApiRequest calls the controller exactly once, and that
\* call has returned before the transport is called: no call is at or past
\* the transport, or has ended, with no or several controller calls behind
\* it, and none has touched the transport while its controller call is
\* still to come or under way.
C20_ReservesExactlyOnce ==
    \A p \in Callers :
        /\ pc[p] \in {"idle", "lock", "load", "store"}
              => (reserveCalls[p] = 0 /\ transportCalls[p] = 0)
        /\ pc[p] \in {"sleeping", "transport", "done"} => reserveCalls[p] = 1
        /\ transportCalls[p] > 0 => (reserveCalls[p] = 1 /\ mutex # p)

\* One call is through the transport, another has been turned away; each
\* has one controller call behind it.
C20_Witness ==
    \E p \in Callers : \E q \in Callers \ {p} :
        /\ pc[p] = "done" /\ transportCalls[p] = 1 /\ reserveCalls[p] = 1
        /\ pc[q] = "done" /\ sleepTimeMS[q] > 0 /\ reserveCalls[q] = 1

\* C21 as stated: in every state in which some caller is inside the
\* transport step or sleeping, the mutex is free.
C21_MutexFreeDuringTransport ==
    (\E p \in Callers : pc[p] \in {"sleeping", "transport"}) => mutex = 0

\* C21, amended. The mutex is never held by a caller that is inside the
\* transport step, sleeping, or has ended its call: whoever holds it is
\* inside its own controller call, so a transport call in progress never
\* keeps another caller from the controller.
C21_MutexNotHeldAcrossTransport ==
    \A p \in Callers :
        /\ pc[p] \in {"sleeping", "transport", "done", "idle"} => mutex # p
        /\ mutex = p => pc[p] \in {"load", "store"}

\* One caller is inside the transport step while the other holds the mutex
\* for its own controller call.
C21_Witness ==
    \E p \in Callers : \E q \in Callers \ {p} :
        pc[p] = "transport" /\ mutex = q /\ pc[q] = "store"

\* The step in which p's getWeightControllerSingleton call returns.
SingletonStep(p) == pc[p] = "singletonCreate" /\ pc'[p] = "idle"

\* C22. The weight controller is created at most once: under every
\* interleaving of NewBinanceClient calls all clients hold the same instance,
\* and a later call neither replaces the instance nor resets its accumulated
\* weight or its window start.
C22_SingletonCreatedOnce ==
    [][/\ instances' <= 1
       /\ \A p \in Callers : \A q \in Callers :
             (client'[p] # 0 /\ client'[q] # 0) => client'[p] = client'[q]
       /\ wcInstance # 0 => wcInstance' = wcInstance
       /\ \A p \in Callers :
             (SingletonStep(p) /\ wcInstance # 0) =>
                 /\ lastMinuteAccumulatedWeight' = lastMinuteAccumulatedWeight
                 /\ timestampOfZeroOutWeightMS' = timestampOfZeroOutWeightMS]_vars

\* Both callers have a client with the one controller, weight has been
\* accumulated after time has passed, and a later NewBinanceClient call has
\* just returned the same controller.
C22_Witness ==
    \E p \in Callers : \E q \in Callers \ {p} :
        /\ client[p] = 1 /\ client[q] = 1
        /\ instances = 1
        /\ lastMinuteAccumulatedWeight >= 2 * 50
        /\ now > timestampOfZeroOutWeightMS
        /\ pc[p] = "transport"
        /\ pc[q] = "singletonCreate" /\ ~sawNil[q]

\* The largest weight the client ever reserves.
MaxWeight == limitToWeightMap[5000]

\* C23. In every reachable state the accumulated weight is at most
\* limit - 1 + 50: one admitted call overshoots the limit by less than its
\* own weight, and the overshoot does not compound within a window.
C23_AccumulatedIsBounded ==
    lastMinuteAccumulatedWeight <= Limit - 1 + MaxWeight

\* A call of weight 50 has been admitted just below the limit and is at the
\* transport with the accumulated weight past the limit.
C23_Witness ==
    \E p \in Callers :
        /\ pc[p] = "transport"
        /\ weight[p] = MaxWeight
        /\ lastMinuteAccumulatedWeight > Limit
        /\ lastMinuteAccumulatedWeight >= Limit - 5 + MaxWeight

\* C24. Every controller call returns a sleep time between 0 and the window
\* length, under every interleaving of concurrent callers, also for a caller
\* that read the clock and then waited for the mutex while another caller
\* rolled the window over.
C24_SleepHintInRange ==
    \A p \in Callers :
        0 <= sleepTimeMS[p] /\ sleepTimeMS[p] <= WindowLength

\* C25. Eventual admission: a caller that calls again and again, each time
\* after waiting the retry-after of the budget warning it got, is at some
\* time let through to the transport, also while other callers keep calling,
\* under fair scheduling of every caller's steps.
C25_EventualAdmission ==
    (pc[Retrier] = "done" /\ retry[Retrier].warned) ~> (pc[Retrier] = "transport")

\* p's controller call comes after p waited out the retry-after of its budget
\* warning, and finds the window the warning was about (no window has been
\* started since the call that was warned).
RetriesInSameWindow(p) ==
    /\ pc[p] = "store"
    /\ retry[p].warned
    /\ retry[p].until <= currentTimestampMS[p]
    /\ loadedTimestamp[p] <= retry[p].warnedAt

\* C25 (amended). A caller that waited the retry-after of its budget warning
\* is let through by its next call whenever no other caller has started a new
\* window since the warning.
C25_AdmittedIfWindowNotRestarted ==
    [][\A p \in Callers :
          (RetriesInSameWindow(p) /\ ReserveStep(p)) =>
              (sleepTimeMS'[p] = 0 /\ pc'[p] = "transport")]_vars

\* The Retrier, warned and having waited, is about to be answered by the
\* controller, which still holds the exhausted window of the warning.
C25_Witness ==
    /\ RetriesInSameWindow(Retrier)
    /\ loadedWeight[Retrier] >= Limit
    /\ mutex = Retrier

\* C26. In what makeApiRequest and the public operations return, the three
\* outcomes exclude each other: never a warning together with an error; with
\* a warning or an error the payload is nil or zero; with an error the
\* retry-after is 0.
C26_OutcomesAreExclusive ==
    \A p \in Callers :
        /\ outcome[p].returned =>
              /\ ~(outcome[p].warning # "none" /\ outcome[p].err # "none")
              /\ (outcome[p].warning # "none" \/ outcome[p].err # "none") =>
                     outcome[p].body = "nil"
              /\ outcome[p].err # "none" => outcome[p].retryAfter = 0
        /\ reply[p].returned =>
              /\ ~(reply[p].warning # "none" /\ reply[p].err # NoError)
              /\ (reply[p].warning # "none" \/ reply[p].err # NoError) =>
                     reply[p].value = "zero"
              /\ reply[p].err # NoError => reply[p].retryAfter = 0

\* C27. Admitted weight is never given back: while the window start is
\* unchanged the accumulated weight does not decrease; whatever becomes of a
\* call after its controller call (transport failure, 429, another status, a
\* parse failure) leaves the accumulated weight and the window start as they
\* are; the accumulated weight drops only when a controller call starts a new
\* window.
C27_NeverRefunded ==
    [][/\ timestampOfZeroOutWeightMS' = timestampOfZeroOutWeightMS =>
             lastMinuteAccumulatedWeight' >= lastMinuteAccumulatedWeight
       /\ \A p \in Callers :
             (InFlight(p) /\ pc'[p] # pc[p]) =>
                 /\ lastMinuteAccumulatedWeight' = lastMinuteAccumulatedWeight
                 /\ timestampOfZeroOutWeightMS' = timestampOfZeroOutWeightMS
       /\ lastMinuteAccumulatedWeight' < lastMinuteAccumulatedWeight =>
             \E p \in Callers :
                 /\ ReserveStep(p)
                 /\ timestampOfZeroOutWeightMS' # timestampOfZeroOutWeightMS
                 /\ lastMinuteAccumulatedWeight' = weight[p]]_vars

\* A call whose weight was counted has ended in a failure (no response read,
\* or a status other than 200, or a body that does not parse) and its
\* weight is still in the accumulated weight of the same window.
C27_Witness ==
    \E p \in Callers :
        /\ pc[p] = "done"
        /\ transportCalls[p] > 0
        /\ \/ result[p].kind # "resp"
           \/ result[p].status # 200
           \/ reply[p].err # NoError
        /\ joined[p] = timestampOfZeroOutWeightMS
        /\ weight[p] > 0
        /\ lastMinuteAccumulatedWeight >= 2 * weight[p]

====
